---- MODULE Spec2Model ----
(***************************************************************************)
(* StudentWatcher (src/abstract_watcher.py): a watcher that starts          *)
(* coroutines as asyncio tasks, and on stop() waits for them with           *)
(* asyncio.wait(timeout), registers the finished ones with the registrator  *)
(* and cancels the rest.                                                    *)
(*                                                                          *)
(* The event loop is modelled by interleaving: stop() is split at its only  *)
(* await (asyncio.wait), every other method body is one atomic step, and    *)
(* each task ends in a step of its own.  While stop() is suspended the      *)
(* bodies of the running tasks may call start() and start_and_watch().      *)
(***************************************************************************)
EXTENDS Integers, Sequences, FiniteSets, TLC

\* ---- bounds of the model ----
MaxTasks == 2       \* tasks created over a whole behaviour
MaxValue == 2       \* payloads a coroutine returns or raises: 1..MaxValue
MaxTimeout == 1     \* largest timeout given to the constructor, in ticks
MaxLog == 2         \* registrator calls after which no stop() reaches asyncio.wait

\* timeout=None of the constructor: asyncio.wait never times out
NoTimeout == -1

TaskIds == 1..MaxTasks
Values == 1..MaxValue
TimeoutChoices == {NoTimeout} \cup (0..MaxTimeout)

VARIABLES
    is_running,     \* self.__is_running
    timeout,        \* self.timeout
    tasks,          \* self.tasks: sequence of task ids, in creation order
    task,           \* the asyncio.Task objects: id -> [st, payload, cancelReq]
    registrator,    \* calls received by the registrator, in order
    pc,             \* "caller": no stop() suspended; "wait": stop() is in asyncio.wait
    fs,             \* the set asyncio.wait was called with (fs = set(fs))
    remaining,      \* ticks left on the timer of asyncio.wait
    cycleSpawned,   \* history: tasks created since the last successful start()
    doneAtCall,     \* history: tasks already done when the suspended stop() was called
    ev              \* history: the method call that completed in the last step

vars == <<is_running, timeout, tasks, task, registrator, pc, fs, remaining,
          cycleSpawned, doneAtCall, ev>>

\* asyncio.create_task(coro): a task that has not finished
NewTask == [st |-> "pending", payload |-> 0, cancelReq |-> FALSE]

\* a task id no create_task has produced yet
NoTask == [st |-> "new", payload |-> 0, cancelReq |-> FALSE]

\* no method call completed in the last step
NoEvent == [call |-> "none", result |-> "none", done |-> {}, pending |-> {},
            logLen |-> 0, before |-> {}]

Event(c, r, d, p, n) ==
    [call |-> c, result |-> r, done |-> d, pending |-> p, logLen |-> n,
     before |-> {}]

\* task.done()
Done(t) == t.st \in {"value", "error", "cancelled"}

\* task.exception() and task.result() raise CancelledError on a cancelled task
RaisesCancelled(t) == t.st = "cancelled"

Init ==
    /\ is_running = FALSE
    /\ timeout \in TimeoutChoices
    /\ tasks = <<>>
    /\ task = [i \in TaskIds |-> NoTask]
    /\ registrator = <<>>
    /\ pc = "caller"
    /\ fs = {}
    /\ remaining = NoTimeout
    /\ cycleSpawned = 0
    /\ doneAtCall = {}
    /\ ev = NoEvent

\* Who may call a method now: the caller when no stop() is suspended, and
\* the body of a running task at any time.
CanCall == pc = "caller" \/ \E i \in TaskIds : task[i].st = "pending"

\* start() without its guard
StartRejects_NoGuard(running) == FALSE

\* the guard of start()
StartRejects(running) == running

\* async def start(self)
start ==
    /\ CanCall
    /\ IF StartRejects(is_running)
         THEN /\ ev' = Event("start", "AlreadyRunning", {}, {}, Len(registrator))
              /\ UNCHANGED <<is_running, cycleSpawned>>
         ELSE /\ is_running' = TRUE
              /\ cycleSpawned' = 0
              /\ ev' = Event("start", "ok", {}, {}, Len(registrator))
    /\ UNCHANGED <<timeout, tasks, task, registrator, pc, fs, remaining,
                   doneAtCall>>

\* start_and_watch() without its guard
SpawnRejects_NoGuard(running) == FALSE

\* the guard of start_and_watch()
SpawnRejects(running) == ~running

\* the id asyncio.create_task gives the next task
FreshIds == {i \in TaskIds : task[i].st = "new"}
NextId == CHOOSE i \in FreshIds : \A j \in FreshIds : i <= j

\* start_and_watch() appending the task twice
Admitted_Twice(ts, i) == Append(Append(ts, i), i)

\* self.tasks.append(task)
Admitted(ts, i) == Append(ts, i)

\* def start_and_watch(self, coro)
start_and_watch ==
    /\ CanCall
    /\ IF SpawnRejects(is_running)
         THEN /\ ev' = Event("start_and_watch", "NotRunning", {}, {}, Len(registrator))
              /\ UNCHANGED <<tasks, task, cycleSpawned>>
         ELSE /\ FreshIds # {}
              /\ task' = [task EXCEPT ![NextId] = NewTask]
              /\ tasks' = Admitted(tasks, NextId)
              /\ cycleSpawned' = cycleSpawned + 1
              /\ ev' = Event("start_and_watch", "ok", {}, {}, Len(registrator))
    /\ UNCHANGED <<is_running, timeout, registrator, pc, fs, remaining,
                   doneAtCall>>

\* the guard of stop()
StopRejects(running) == ~running

\* asyncio.wait raises ValueError when given no tasks
WaitRejects(ts) == ts = <<>>

\* the elements of self.tasks
Range(ts) == {ts[k] : k \in 1..Len(ts)}

\* stop(), from its call to its suspension in asyncio.wait.  stop() is called
\* by the caller only, never while another stop() is suspended.
stop_call ==
    /\ pc = "caller"
    /\ IF StopRejects(is_running)
         THEN /\ ev' = Event("stop", "NotRunning", {}, {}, Len(registrator))
              /\ UNCHANGED <<pc, fs, remaining, doneAtCall>>
         ELSE IF WaitRejects(tasks)
         THEN /\ ev' = Event("stop", "ValueError", {}, {}, Len(registrator))
              /\ UNCHANGED <<pc, fs, remaining, doneAtCall>>
         ELSE /\ Len(registrator) < MaxLog
              /\ pc' = "wait"
              /\ fs' = Range(tasks)
              /\ remaining' = timeout
              /\ doneAtCall' = {i \in Range(tasks) : Done(task[i])}
              /\ ev' = NoEvent
    /\ UNCHANGED <<is_running, timeout, tasks, task, registrator, cycleSpawned>>

\* the timer asyncio.wait sets with loop.call_later(timeout, ...)
wait_tick ==
    /\ pc = "wait"
    /\ remaining > 0
    /\ remaining' = remaining - 1
    /\ ev' = NoEvent
    /\ UNCHANGED <<is_running, timeout, tasks, task, registrator, pc, fs,
                   cycleSpawned, doneAtCall>>

\* asyncio.wait called without timeout=self.timeout
WaitReleased_NoTimeout(allDone, rem) == allDone

\* asyncio.wait returns when every task of fs is done (ALL_COMPLETED) or the
\* timer has fired
WaitReleased(allDone, rem) == allDone \/ rem = 0

\* the registrator call __register_task makes for a task that is done and
\* not cancelled
RegisterEntry(i, t) ==
    IF t.st = "error"
      THEN [kind |-> "error", payload |-> t.payload, task |-> i]
      ELSE [kind |-> "value", payload |-> t.payload, task |-> i]

\* for task in done: self.__register_task(task), in the order the set is
\* iterated; the loop ends at the first task whose exception() raises
RECURSIVE RegisterLoop(_, _)
RegisterLoop(reg, order) ==
    IF order = <<>> THEN reg
    ELSE IF RaisesCancelled(task[Head(order)]) THEN reg
    ELSE RegisterLoop(Append(reg, RegisterEntry(Head(order), task[Head(order)])),
                      Tail(order))

\* the orders in which a set can be iterated
Orders(S) ==
    {o \in [1..Cardinality(S) -> S] : \A a, b \in 1..Cardinality(S) : o[a] = o[b] => a = b}

\* stop() cancelling every task it waited on instead of the pending ones
CancelLoop_All(pend) ==
    [i \in TaskIds |-> IF i \in fs THEN [task[i] EXCEPT !.cancelReq = TRUE]
                                    ELSE task[i]]

\* stop() without its cancel loop
CancelLoop_None(pend) == task

\* stop() awaiting the tasks it cancels until they have ended
CancelLoop_Awaited(pend) ==
    [i \in TaskIds |-> IF i \in pend
                         THEN [task[i] EXCEPT !.cancelReq = TRUE, !.st = "cancelled"]
                         ELSE task[i]]

\* for task in pending: task.cancel()
CancelLoop(pend) ==
    [i \in TaskIds |-> IF i \in pend THEN [task[i] EXCEPT !.cancelReq = TRUE]
                                      ELSE task[i]]

\* stop() without self.tasks = []
ClearedTasks_Kept(ts) == ts

\* self.tasks = []
ClearedTasks(ts) == <<>>

\* stop(), from the return of asyncio.wait to its end
stop_resume ==
    /\ pc = "wait"
    /\ WaitReleased(\A i \in fs : Done(task[i]), remaining)
    /\ LET done == {i \in fs : Done(task[i])}
           pending == fs \ done
       IN  \E order \in Orders(done) :
             /\ registrator' = RegisterLoop(registrator, order)
             /\ IF \E i \in done : RaisesCancelled(task[i])
                  THEN /\ ev' = [Event("stop", "CancelledError", done, pending,
                                       Len(registrator))
                                   EXCEPT !.before = doneAtCall]
                       /\ UNCHANGED <<is_running, tasks, task>>
                  ELSE /\ task' = CancelLoop(pending)
                       /\ tasks' = ClearedTasks(tasks)
                       /\ is_running' = FALSE
                       /\ ev' = [Event("stop", "ok", done, pending,
                                       Len(registrator))
                                   EXCEPT !.before = doneAtCall]
    /\ pc' = "caller"
    /\ fs' = {}
    /\ remaining' = NoTimeout
    /\ doneAtCall' = {}
    /\ UNCHANGED <<timeout, cycleSpawned>>

\* a coroutine ends: it returns v, raises v, or ends cancelled (it raised
\* CancelledError itself or let a requested cancellation through); a coroutine
\* that never takes this step never finishes
task_finish ==
    /\ \E i \in TaskIds :
         /\ task[i].st = "pending"
         /\ \/ \E v \in Values, k \in {"value", "error"} :
                 task' = [task EXCEPT ![i].st = k, ![i].payload = v]
            \/ task' = [task EXCEPT ![i].st = "cancelled"]
    /\ ev' = NoEvent
    /\ UNCHANGED <<is_running, timeout, tasks, registrator, pc, fs, remaining,
                   cycleSpawned, doneAtCall>>

Next ==
    \/ start
    \/ start_and_watch
    \/ stop_call
    \/ wait_tick
    \/ stop_resume
    \/ task_finish

Spec == Init /\ [][Next]_vars

\* the event loop runs the timer and resumes stop() once asyncio.wait is released
FairSpec == Spec /\ WF_vars(wait_tick) /\ WF_vars(stop_resume)

\* ---- helpers of the properties ----

\* number of registrator calls task i has caused so far
RecCount(i) == Cardinality({k \in 1..Len(registrator) : registrator[k].task = i})

\* positions of the registrator calls made by the stop() that just completed
NewCalls == (ev.logLen + 1)..Len(registrator)

\* the stop() that just completed got past its guard and its asyncio.wait returned
WaitReturned == ev.call = "stop" /\ ev.result \in {"ok", "CancelledError"}

\* ---- C1 ----
\* C1: when stop() returns, the registrator calls it made plus the tasks it
\* cancelled number as many as the tasks created in the cycle it ends.
C1_Conservation ==
    (ev.call = "stop" /\ ev.result = "ok")
        => (Len(registrator) - ev.logLen) + Cardinality(ev.pending) = cycleSpawned

\* ---- C2 ----
\* C2: no task ever causes more than one registrator call.
C2_AtMostOnce == \A i \in TaskIds : RecCount(i) <= 1

\* ---- C3 ----
\* C3: a stop() called while running with no task in self.tasks returns
\* successfully, registers and cancels nothing, and leaves the watcher idle.
C3_EmptyStopSucceeds ==
    (ev.call = "stop" /\ ev.result # "NotRunning" /\ ev.done = {} /\ ev.pending = {})
        => (ev.result = "ok" /\ ~is_running /\ Len(registrator) = ev.logLen)

\* ---- C4 ----
\* C4: after any stop() called while running the watcher is idle with
\* self.tasks empty, so that the next start() succeeds.
C4_StopLeavesIdle ==
    (ev.call = "stop" /\ ev.result # "NotRunning") => (~is_running /\ tasks = <<>>)

\* ---- C5 ----
\* C5: every task that had returned or raised when asyncio.wait returned
\* causes exactly one registrator call in that stop(): register_value with the
\* value it returned, or register_error with the exception it raised.
C5_Classification ==
    WaitReturned =>
        \A i \in ev.done :
            task[i].st \in {"value", "error"} =>
                /\ Cardinality({k \in NewCalls : registrator[k].task = i}) = 1
                /\ \A k \in NewCalls :
                     registrator[k].task = i =>
                        /\ registrator[k].kind = task[i].st
                        /\ registrator[k].payload = task[i].payload

\* ---- C6 ----
\* C6: a task unfinished when asyncio.wait returned has been asked to cancel
\* and has caused no registrator call, then or at any later time.
C6_PendingCancelledNotRecorded ==
    /\ WaitReturned => \A i \in ev.pending : task[i].cancelReq /\ RecCount(i) = 0
    /\ \A i \in TaskIds : task[i].cancelReq => RecCount(i) = 0

\* ---- C7 ----
\* C7: a stop() called while running with tasks in flight returns
\* successfully however the tasks ended; no task outcome is raised to the caller.
C7_StopNeverRaises ==
    (ev.call = "stop" /\ ev.done \cup ev.pending # {}) => ev.result = "ok"

\* ---- C8 ----
\* C8: start() called while running fails with 'Watcher is already running'
\* and changes nothing: still running, self.tasks as it was, the tasks
\* untouched, no registrator call.
C8_StartWhileRunning ==
    [][(ev'.call = "start" /\ is_running)
         => /\ ev'.result = "AlreadyRunning"
            /\ is_running'
            /\ UNCHANGED <<tasks, task, registrator, pc, fs, remaining>>]_vars

\* a start() has just failed while tasks were in flight
C8_Witness ==
    /\ ev.call = "start" /\ ev.result = "AlreadyRunning"
    /\ is_running /\ Len(tasks) >= 2

\* ---- C9 ----
\* C9: stop() and start_and_watch() called while idle fail with 'Watcher is
\* not running' and change nothing: still idle, no task is created or
\* admitted to self.tasks, no registrator call, no cancellation.
C9_IdleCallsRejected ==
    [][(ev'.call \in {"stop", "start_and_watch"} /\ ~is_running)
         => /\ ev'.result = "NotRunning"
            /\ ~is_running'
            /\ UNCHANGED <<tasks, task, registrator, pc, fs, remaining>>]_vars

\* a start_and_watch() has just failed on a watcher idle after a cycle
C9_Witness ==
    /\ ev.call = "start_and_watch" /\ ev.result = "NotRunning"
    /\ ~is_running /\ tasks = <<>> /\ registrator # <<>>

\* ---- C10 ----
\* C10: with a timeout set, a stop() suspended in asyncio.wait always gets
\* control back, whether or not the tasks ever finish.
C10_BoundedDrain == (pc = "wait" /\ timeout # NoTimeout) ~> (pc = "caller")

\* stop() has returned on the timeout while a task it waited for is still
\* unfinished
C10_Witness ==
    /\ timeout # NoTimeout
    /\ ev.call = "stop" /\ ev.result = "ok"
    /\ \E i \in ev.pending : task[i].st = "pending"

\* ---- C11 ----
\* C11: with no timeout, when stop() returns it has waited for every task:
\* none was unfinished or cancelled, every task created in the cycle has
\* been registered exactly once by this stop(), and self.tasks is empty.
C11_UnboundedDrain ==
    (timeout = NoTimeout /\ ev.call = "stop" /\ ev.result = "ok")
        => /\ ev.pending = {}
           /\ \A i \in TaskIds : ~task[i].cancelReq
           /\ \A i \in ev.done : Cardinality({k \in NewCalls : registrator[k].task = i}) = 1
           /\ Len(registrator) - ev.logLen = cycleSpawned
           /\ tasks = <<>>

\* ---- C12 ----
\* C12: in every reachable state self.tasks is non-empty only while the
\* watcher is running.
C12_IdleImpliesEmpty == ~is_running => tasks = <<>>

\* the watcher is idle again after a stop() that drained tasks
C12_Witness ==
    /\ ~is_running /\ tasks = <<>>
    /\ ev.call = "stop" /\ ev.result = "ok" /\ ev.done # {} /\ ev.pending # {}

\* ---- C13 ----
\* C13: with timeout 0, every task that had returned or raised before stop()
\* was called has been registered once by that stop() and has not been asked
\* to cancel.
C13_ZeroTimeoutRecordsFinished ==
    (timeout = 0 /\ WaitReturned)
        => \A i \in ev.before :
              task[i].st \in {"value", "error"} =>
                 /\ Cardinality({k \in NewCalls : registrator[k].task = i}) = 1
                 /\ ~task[i].cancelReq

C15_StartLeavesEmpty ==
    /\ (ev.call = "start" /\ ev.result = "ok") => (is_running /\ tasks = <<>>)
    /\ WaitReturned => Cardinality(ev.done \cup ev.pending) <= cycleSpawned

\* a start() has just succeeded after an earlier cycle registered a task
C15_Witness ==
    /\ ev.call = "start" /\ ev.result = "ok"
    /\ registrator # <<>>

\* ---- C16 ----
\* C16: the registrator is called only by stop() resuming from its wait; a
\* successful start_and_watch() appends exactly one, unfinished, task to
\* self.tasks and changes neither the running flag nor the registrator.
C16_RecordOnlyInStop ==
    [][/\ registrator' # registrator => (pc = "wait" /\ ev'.call = "stop")
       /\ (ev'.call = "start_and_watch" /\ ev'.result = "ok")
            => /\ Len(tasks') = Len(tasks) + 1
               /\ SubSeq(tasks', 1, Len(tasks)) = tasks
               /\ task'[tasks'[Len(tasks')]].st = "pending"
               /\ is_running' = is_running
               /\ registrator' = registrator]_vars

\* a task admitted after another one finished, which is still unregistered
C16_Witness ==
    /\ ev.call = "start_and_watch" /\ ev.result = "ok"
    /\ is_running /\ pc = "caller"
    /\ \E i \in Range(tasks) : Done(task[i]) /\ RecCount(i) = 0

\* ---- C17 ----
\* C17: no task leaves self.tasks without having been registered or asked
\* to cancel, also when it was admitted while stop() was suspended.
C17_NoHandleLost ==
    [][\A i \in Range(tasks) \ Range(tasks') :
          RecCount(i)' > 0 \/ task'[i].cancelReq]_vars

====
